---- MODULE Spec2Model ----
(***************************************************************************)
(* A model of src/api_server.py: the Flask service of the music            *)
(* recommendation agent.                                                   *)
(*                                                                         *)
(*   Spec     one /recommend request from its receipt to its response:     *)
(*            request validation, the calls to the memory store, the       *)
(*            perception layer, the MCP tool session (through run_async)   *)
(*            and the decision maker, the normalisation of the tool result *)
(*            and the response.  Every collaborator call of the handler is *)
(*            a step of its own; run_async is five steps (new loop, start  *)
(*            of the coroutine, the call it makes, its end, close), an     *)
(*            add_log call is two (compose, append), and the return is     *)
(*            one.  Between any two steps another request thread runs      *)
(*            add_log (compose, append), POST /logs/clear (clear, compose, *)
(*            append), GET /logs, or adds a record to the memory store.    *)
(*   SpecLog  the log buffer (a deque of at most maxlen entries guarded by *)
(*            log_lock) under concurrent add_log, GET /logs and            *)
(*            POST /logs/clear calls of several request threads, down to   *)
(*            the acquisition and release of log_lock.                     *)
(*                                                                         *)
(* Text is modelled as a sequence of Unicode code points, so that          *)
(* str.strip and str.split are computed and not assumed.                   *)
(***************************************************************************)
EXTENDS Integers, Sequences, FiniteSets, TLC

VARIABLES
    logs,        \* the deque `logs`, oldest entry first
    clock,       \* number of log entries composed so far (their timestamps)
    store,       \* the memory store's records, in the order they were added
    loops,       \* every event loop created by run_async, in creation order
    cur_loop,    \* the loop installed by asyncio.set_event_loop (0: none)
    pc,          \* where the /recommend handler is
    request,     \* the JSON body of the request being handled
    local,       \* the handler's local variables
    todo,        \* the add_log calls the handler makes before its next call
    composed,    \* the entry the handler's add_log has composed, not yet appended
    calls,       \* the collaborator calls made for the request
    appended,    \* the add_log calls the handler has made for the request
    response,    \* the response of the request
    nother,      \* number of operations other request threads have done
    log_lock,    \* holder of log_lock (0: free)
    tpc,         \* where each request thread is in its buffer operation
    top,         \* the buffer operation each thread is executing
    tret,        \* what each thread's last get_logs returned
    lastOp,      \* SpecLog: the last completed operation on the buffer
    nops         \* SpecLog: number of operations started

recVars == <<store, loops, cur_loop, pc, request, local, todo, composed,
             calls, appended, response, nother>>
logVars == <<log_lock, tpc, top, tret, lastOp, nops>>
vars == <<logs, clock, store, loops, cur_loop, pc, request, local, todo,
          composed, calls, appended, response, nother, log_lock, tpc, top, tret,
          lastOp, nops>>

(***************************************************************************)
(* Bounds of the model.                                                    *)
(***************************************************************************)
MaxTools == 1       \* length of the tool list returned by list_tools
MaxOtherOps == 1    \* Spec: operations of other request threads
MaxOps == 3         \* SpecLog: buffer operations started in one behaviour
MaxBacklog == 1     \* SpecLog: how far below maxlen a pre-filled buffer starts

(***************************************************************************)
(* Text: str.strip() and the tag tokenisation of recommend().              *)
(***************************************************************************)
\* str.isspace() of a one-character string, the whitespace of str.strip()
\* and str.split(): U+0009-000D, U+001C-0020, U+0085, U+00A0, U+1680,
\* U+2000-200A, U+2028, U+2029, U+202F, U+205F, U+3000.
IsSpace(c) ==
    \/ c \in 9..13
    \/ c \in 28..32
    \/ c \in {133, 160, 5760}
    \/ c \in 8192..8202
    \/ c \in {8232, 8233, 8239, 8287, 12288}

RECURSIVE lstrip(_)
lstrip(s) == IF s # <<>> /\ IsSpace(Head(s)) THEN lstrip(Tail(s)) ELSE s

RECURSIVE rstrip(_)
rstrip(s) ==
    IF s # <<>> /\ IsSpace(s[Len(s)]) THEN rstrip(SubSeq(s, 1, Len(s) - 1))
    ELSE s

strip(s) == rstrip(lstrip(s))

Contains(s, c) == \E i \in 1..Len(s) : s[i] = c

\* str.split(sep): the pieces between the separators, empty pieces kept.
RECURSIVE split_sep(_, _, _)
split_sep(s, sep, cur) ==
    IF s = <<>> THEN <<cur>>
    ELSE IF Head(s) = sep THEN <<cur>> \o split_sep(Tail(s), sep, <<>>)
    ELSE split_sep(Tail(s), sep, Append(cur, Head(s)))

\* str.split(): the maximal runs of non-whitespace characters.
RECURSIVE split_ws(_, _)
split_ws(s, cur) ==
    IF s = <<>> THEN (IF cur = <<>> THEN <<>> ELSE <<cur>>)
    ELSE IF IsSpace(Head(s))
         THEN (IF cur = <<>> THEN <<>> ELSE <<cur>>) \o split_ws(Tail(s), <<>>)
    ELSE split_ws(Tail(s), Append(cur, Head(s)))

RECURSIVE strip_nonempty(_)
strip_nonempty(pieces) ==
    IF pieces = <<>> THEN <<>>
    ELSE LET t == strip(Head(pieces))
         IN (IF t = <<>> THEN <<>> ELSE <<t>>) \o strip_nonempty(Tail(pieces))

\* tags = [t.strip() for t in (split(",") if "," in raw else split()) if t.strip()]
\* (44 is the comma)
parse_tags(tags_raw) ==
    IF tags_raw = <<>> THEN <<>>
    ELSE strip_nonempty(IF Contains(tags_raw, 44)
                        THEN split_sep(tags_raw, 44, <<>>)
                        ELSE split_ws(tags_raw, <<>>))

(***************************************************************************)
(* The request body.  A field is absent, a string, or a JSON value that    *)
(* is no string (null, a number, a list), on which .strip() raises.        *)
(***************************************************************************)
Absent == [kind |-> "absent", s |-> <<>>]
NonStr == [kind |-> "nonstr", s |-> <<>>]
Str(chars) == [kind |-> "str", s |-> chars]

\* the empty string; CR, U+00A0, U+2003 (whitespace only);
\* VT, U+2003, U+00E9, h, U+0085, space (strips to U+00E9, h)
MoodValues ==
    {Absent, NonStr, Str(<<>>), Str(<<13, 160, 8195>>),
     Str(<<11, 8195, 233, 104, 133, 32>>)}
\* TAB, U+3000 (whitespace only); r
ActivityValues == {Absent, Str(<<9, 12288>>), Str(<<114>>)}
\* p, U+00A0
LocationValues == {NonStr, Str(<<112, 160>>)}
\* a, comma, space, b, comma; U+2028, a, FF, U+2003, b
TagsValues ==
    {Absent, NonStr, Str(<<97, 44, 32, 98, 44>>), Str(<<8232, 97, 12, 8195, 98>>)}

Bodies ==
    [is_object : {TRUE}, mood : MoodValues, activity : ActivityValues,
     location : LocationValues, tags : TagsValues]
    \cup {[is_object |-> FALSE, mood |-> Absent, activity |-> Absent,
           location |-> Absent, tags |-> Absent]}

NoBody == [is_object |-> FALSE, mood |-> Absent, activity |-> Absent,
           location |-> Absent, tags |-> Absent]

\* data.get(key, ''): the default only when the key is absent.
dict_get(field) == IF field.kind = "absent" THEN Str(<<>>) ELSE field

(***************************************************************************)
(* The log buffer: deque(maxlen=1000), add_log, get_logs.                  *)
(***************************************************************************)
maxlen == 1000

\* log_entry of add_log; "data" is {} at every call site of the file.
log_entry(ts, level, message) ==
    [timestamp |-> ts, level |-> level, message |-> message]

NoEntry == log_entry(0, "INFO", "")

\* The operation on the buffer a request thread is executing: none.
NoOp == [op |-> "none", limit |-> 0, entry |-> NoEntry]

\* Faulty variant of deque_append: a deque without maxlen.
deque_append_unbounded(buf, e) == Append(buf, e)

\* deque.append on a bounded deque: a full deque drops its leftmost entry.
deque_append(buf, e) ==
    IF Len(buf) >= maxlen THEN Append(Tail(buf), e) ELSE Append(buf, e)

\* Faulty variant of deque_clear: the newest entry survives.
deque_clear_keep_newest(buf) == IF buf = <<>> THEN <<>> ELSE <<buf[Len(buf)]>>

\* logs.clear()
deque_clear(buf) == <<>>

\* Python's seq[i:] for any integer i.
slice_from(seq, i) ==
    LET n == Len(seq)
        j == IF i < 0 THEN (IF n + i < 0 THEN 0 ELSE n + i)
             ELSE (IF i > n THEN n ELSE i)
    IN SubSeq(seq, j + 1, n)

\* get_logs: list(logs)[-limit:]
get_logs(buf, limit) == slice_from(buf, -limit)

(***************************************************************************)
(* JSON values and json.loads on the texts a tool can return.  A value is  *)
(* its Python type (kind), its number (int; bool as 0/1) and its elements: *)
(* the element kinds of a list, the keys of a dict, the code points of a   *)
(* string.                                                                 *)
(***************************************************************************)
J(kind, num, elems) == [kind |-> kind, num |-> num, elems |-> elems]

EmptyList == J("list", 0, <<>>)

PayloadTexts ==
    {"[]",
     "[{\"song\": \"X\", \"artist\": \"Y\"}]",
     "[1, 2]",
     "{\"song\": \"X\", \"artist\": \"Y\"}",
     "5",
     "\"abc\"",
     "null",
     "not json"}

\* json.loads(text): ok is FALSE where it raises json.JSONDecodeError.
json_loads(text) ==
    CASE text = "[]" -> [ok |-> TRUE, val |-> EmptyList]
      [] text = "[{\"song\": \"X\", \"artist\": \"Y\"}]" ->
            [ok |-> TRUE, val |-> J("list", 0, <<"dict">>)]
      [] text = "[1, 2]" -> [ok |-> TRUE, val |-> J("list", 0, <<"int", "int">>)]
      [] text = "{\"song\": \"X\", \"artist\": \"Y\"}" ->
            [ok |-> TRUE, val |-> J("dict", 0, <<"song", "artist">>)]
      [] text = "{}" -> [ok |-> TRUE, val |-> J("dict", 0, <<>>)]
      [] text = "5" -> [ok |-> TRUE, val |-> J("int", 5, <<>>)]
      [] text = "0" -> [ok |-> TRUE, val |-> J("int", 0, <<>>)]
      [] text = "\"abc\"" -> [ok |-> TRUE, val |-> J("str", 0, <<97, 98, 99>>)]
      [] text = "\"\"" -> [ok |-> TRUE, val |-> J("str", 0, <<>>)]
      [] text = "true" -> [ok |-> TRUE, val |-> J("bool", 1, <<>>)]
      [] text = "false" -> [ok |-> TRUE, val |-> J("bool", 0, <<>>)]
      [] text = "null" -> [ok |-> TRUE, val |-> J("null", 0, <<>>)]
      [] OTHER -> [ok |-> FALSE, val |-> J("null", 0, <<>>)]

\* bool(v)
truthy(v) ==
    CASE v.kind \in {"list", "dict", "str"} -> Len(v.elems) > 0
      [] v.kind \in {"int", "bool"} -> v.num # 0
      [] OTHER -> FALSE

\* whether len(v) is defined (it raises TypeError otherwise)
has_len(v) == v.kind \in {"list", "dict", "str"}

\* isinstance(v[0], dict), for a non-empty list or string v
first_is_dict(v) == v.kind = "list" /\ v.elems[1] = "dict"

\* What call_tool_with_session returns for result.content.
Contents ==
    {[kind |-> "empty", text |-> ""], [kind |-> "nontext", text |-> ""]}
    \cup {[kind |-> "text", text |-> t] : t \in PayloadTexts}

payload_of(content) ==
    IF content.kind = "empty" THEN "[]"
    ELSE IF content.kind = "text" THEN content.text
    ELSE "type='image' data='...'"

\* if isinstance(recommendations, dict): recommendations = [recommendations]
wrap_dict(v) == IF v.kind = "dict" THEN J("list", 0, <<"dict">>) ELSE v

\* Faulty variant of normalize: a text that does not parse fails the request.
normalize_parse_error_fatal(text) ==
    LET parsed == json_loads(text)
    IN IF ~parsed.ok
       THEN [raised |-> TRUE, payload |-> EmptyList, items |-> <<>>]
       ELSE [raised |-> FALSE, payload |-> wrap_dict(parsed.val),
             items |-> <<<<"SUCCESS", "request_completed">>>>]

\* Lines 197-220 of recommend(): parse, wrap, and the add_log calls made on
\* the way.  raised: the TypeError of len() on a number or on True.
normalize(text) ==
    LET parsed == json_loads(text)
        items1 == IF parsed.ok THEN <<>> ELSE <<<<"WARNING", "parse_failed">>>>
        payload == wrap_dict(IF parsed.ok THEN parsed.val ELSE EmptyList)
    IN IF truthy(payload)
       THEN IF ~has_len(payload)
            THEN [raised |-> TRUE, payload |-> payload, items |-> items1]
            ELSE [raised |-> FALSE, payload |-> payload,
                  items |-> items1 \o <<<<"SUCCESS", "received_recommendations">>>>
                            \o (IF first_is_dict(payload)
                                THEN <<<<"INFO", "top_recommendation">>>>
                                ELSE <<>>)
                            \o <<<<"SUCCESS", "request_completed">>>>]
       ELSE [raised |-> FALSE, payload |-> payload,
             items |-> items1 \o <<<<"WARNING", "no_recommendations">>>>
                       \o <<<<"SUCCESS", "request_completed">>>>]

(***************************************************************************)
(* Collaborators.                                                          *)
(***************************************************************************)
\* memory.add_memory: the store gains one record; its id is returned.
memory_add_memory(st, mood, activity, tags) ==
    Append(st, [content |-> [mood |-> mood, activity |-> activity, tags |-> tags],
                memory_type |-> "conversation", importance |-> 2,
                tags |-> tags, source |-> "web"])

\* run_async, lines 59-60: asyncio.new_event_loop(), installed by
\* asyncio.set_event_loop.  started: the number of run_until_complete calls
\* begun on the loop; ran: the number of coroutines that have run to their
\* end on it, by returning or by raising.
new_event_loop(lps) == Append(lps, [state |-> "open", started |-> 0, ran |-> 0])

\* run_async, line 61: loop.run_until_complete(coro) begins to run the
\* coroutine.
run_start(lps, i) == [lps EXCEPT ![i].started = @ + 1]

\* run_async, line 61: the coroutine has run to its end, and
\* loop.run_until_complete returns its result or raises its exception.
run_until_complete(lps, i) == [lps EXCEPT ![i].ran = @ + 1]

\* run_async, line 62: loop.close(), reached when line 61 returned.
loop_close(lps, i) == [lps EXCEPT ![i].state = "closed"]

\* The tool list of list_tools: a tool with a schema that has properties,
\* one whose schema has none, one whose schema cannot be read.
ToolKinds == {"params", "no_params", "bad_schema"}

ToolLists == UNION {[1..n -> ToolKinds] : n \in 0..MaxTools}

\* Lines 140-160: one description per tool, a WARNING for each tool whose
\* description cannot be built.
RECURSIVE describe_tools(_)
describe_tools(tools) ==
    IF tools = <<>> THEN <<>>
    ELSE (IF Head(tools) = "bad_schema"
          THEN <<<<"WARNING", "error_processing_tool">>>>
          ELSE <<>>) \o describe_tools(Tail(tools))

(***************************************************************************)
(* The /recommend handler.  A step of the handler is one collaborator call *)
(* (with the local computation around it), one step of run_async, one half *)
(* of an add_log call, or the return.  `todo` holds the add_log calls that *)
(* the code makes, with nothing but local computation between them, from   *)
(* where the handler is to its next collaborator call or to its return.    *)
(***************************************************************************)
Canon == <<"add_memory", "perceive_user_input", "perceive_with_gemini",
           "list_tools", "make_decision", "call_tool">>

NoJson == J("null", 0, <<>>)

NoResponse ==
    [status |-> 0, keys |-> {}, error |-> "", success |-> FALSE,
     recommendations |-> NoJson, reasoning |-> "", memory_id |-> 0,
     perception |-> ""]

\* Faulty variant of error_response: the error body also carries the memory id.
error_response_partial(status, message) ==
    [NoResponse EXCEPT !.status = status,
                       !.keys = IF local.mem_id # 0 THEN {"error", "memory_id"}
                                ELSE {"error"},
                       !.error = message, !.memory_id = local.mem_id]

\* jsonify({"error": message}), status
error_response(status, message) ==
    [NoResponse EXCEPT !.status = status, !.keys = {"error"}, !.error = message]

\* Lines 222-228
success_response(payload, reasoning, mem_id, gem_perception) ==
    [status |-> 200,
     keys |-> {"success", "recommendations", "reasoning", "memory_id", "perception"},
     error |-> "", success |-> TRUE, recommendations |-> payload,
     reasoning |-> reasoning, memory_id |-> mem_id, perception |-> gem_perception]

\* error and raised_in: str(e) and the step in which e was raised
EmptyLocal ==
    [mood |-> <<>>, activity |-> <<>>, current_loc |-> <<>>, tags |-> <<>>,
     mem_id |-> 0, gem_perception |-> "", reasoning |-> "", payload |-> "",
     recommendations |-> NoJson, error |-> "", raised_in |-> ""]

\* Faulty variant: the failure is logged and the handler carries on.
HandleExceptionAndGoOn(items, step, message) ==
    /\ todo' = items \o <<<<"ERROR", "exception">>>>
    /\ local' = [local EXCEPT !.raised_in = step, !.error = message]
    /\ UNCHANGED <<pc, store>>

\* Faulty variant: the memory record of the request is removed again.
HandleExceptionRollback(items, step, message) ==
    /\ todo' = items \o <<<<"ERROR", "exception">>>>
    /\ pc' = "failing"
    /\ local' = [local EXCEPT !.raised_in = step, !.error = message]
    /\ store' = IF local.mem_id # 0
                THEN SubSeq(store, 1, local.mem_id - 1)
                     \o SubSeq(store, local.mem_id + 1, Len(store))
                ELSE store

\* An exception raised in step `step` after the add_log calls `items`: the
\* handler goes to `except Exception as e` (line 230), where it logs the
\* ERROR entry (line 231) and then answers 500 (line 232).
HandleException(items, step, message) ==
    /\ todo' = items \o <<<<"ERROR", "exception">>>>
    /\ pc' = "failing"
    /\ local' = [local EXCEPT !.raised_in = step, !.error = message]
    /\ UNCHANGED store

\* Line 74, on the arrival of a request: the first add_log call is due.
Receive ==
    /\ pc = "idle"
    /\ todo' = <<<<"INFO", "request_received">>>>
    /\ pc' = "received"
    /\ UNCHANGED <<logs, clock, store, loops, cur_loop, request, local, calls,
                   appended, response, nother>>

\* Lines 75-79: request.json is no object, or a field is no string.
fields_raise(body) ==
    \/ ~body.is_object
    \/ \E f \in {body.mood, body.activity, body.location, body.tags} :
            dict_get(f).kind = "nonstr"

\* Lines 75-92: the request is read, its fields are stripped, mood and
\* activity are required, the tags are tokenised.  Due next are the add_log
\* calls of lines 81 and 84, or of lines 81 and 92.
Validate ==
    /\ pc = "received"
    /\ todo = <<>>
    /\ UNCHANGED <<logs, clock, loops, cur_loop, calls, appended, response, nother>>
    /\ \E body \in Bodies :
        /\ request' = body
        /\ IF fields_raise(body)
           THEN HandleException(<<>>, "validate", "AttributeError")
           ELSE LET mood == strip(dict_get(body.mood).s)
                    activity == strip(dict_get(body.activity).s)
                    current_loc == strip(dict_get(body.location).s)
                    tags_raw == strip(dict_get(body.tags).s)
                IN IF mood = <<>> \/ activity = <<>>
                   THEN /\ todo' = <<<<"INFO", "user_input">>,
                                     <<"ERROR", "validation_failed">>>>
                        /\ pc' = "rejecting"
                        /\ local' = [local EXCEPT !.mood = mood,
                                        !.activity = activity,
                                        !.current_loc = current_loc,
                                        !.error = "Mood and activity are required."]
                        /\ UNCHANGED store
                   ELSE /\ todo' = <<<<"INFO", "user_input">>,
                                     <<"INFO", "storing_inputs">>>>
                        /\ pc' = "validated"
                        /\ local' = [local EXCEPT !.mood = mood,
                                        !.activity = activity,
                                        !.current_loc = current_loc,
                                        !.tags = parse_tags(tags_raw)]
                        /\ UNCHANGED store

\* Lines 94-104: memory.add_memory; the add_log calls of lines 101 and 104
\* are due when it returned.
Persist ==
    /\ pc = "validated"
    /\ todo = <<>>
    /\ calls' = Append(calls, "add_memory")
    /\ UNCHANGED <<logs, clock, loops, cur_loop, request, appended, response, nother>>
    /\ \E returned \in BOOLEAN :
        IF returned
        THEN /\ store' = memory_add_memory(store, local.mood, local.activity, local.tags)
             /\ local' = [local EXCEPT !.mem_id = Len(store) + 1]
             /\ todo' = <<<<"SUCCESS", "stored_to_memory">>,
                          <<"INFO", "building_perception">>>>
             /\ pc' = "persisted"
        ELSE HandleException(<<>>, "persist", "add_memory failed")

\* Lines 105-113: PerceptionManager().perceive_user_input; the add_log call
\* of line 113 is due when it returned.
\* no_manager: PerceptionManager() (line 105) raised, before the call.
PerceiveLocal ==
    /\ pc = "persisted"
    /\ todo = <<>>
    /\ UNCHANGED <<logs, clock, loops, cur_loop, request, appended, response, nother>>
    /\ \E outcome \in {"returned", "raised", "no_manager"} :
        /\ calls' = IF outcome = "no_manager" THEN calls
                    ELSE Append(calls, "perceive_user_input")
        /\ IF outcome = "returned"
           THEN /\ todo' = <<<<"INFO", "calling_gemini">>>>
                /\ pc' = "perceived_local"
                /\ UNCHANGED <<store, local>>
           ELSE HandleException(<<>>, "perceive_local",
                                IF outcome = "raised"
                                THEN "perceive_user_input failed"
                                ELSE "PerceptionManager failed")

\* Lines 114-123: perceive_with_gemini, whose result is logged with json.dumps
\* (line 120); the add_log calls of lines 120 and 123 are due when it returned
\* a value that json.dumps accepts.
PerceiveGemini ==
    /\ pc = "perceived_local"
    /\ todo = <<>>
    /\ calls' = Append(calls, "perceive_with_gemini")
    /\ UNCHANGED <<logs, clock, loops, cur_loop, request, appended, response, nother>>
    /\ \E outcome \in {"returned", "raised", "not_serializable"} :
        IF outcome = "returned"
        THEN /\ todo' = <<<<"SUCCESS", "gemini_completed">>,
                          <<"INFO", "getting_tools">>>>
             /\ local' = [local EXCEPT !.gem_perception = "perception"]
             /\ pc' = "perceived"
             /\ UNCHANGED store
        ELSE HandleException(<<>>, "perceive",
                             IF outcome = "raised" THEN "perceive_with_gemini failed"
                             ELSE "TypeError")

\* Lines 124-136 and run_async, lines 59-60: a new event loop is created and
\* installed as the loop of the request thread.
DiscoverBegin ==
    /\ pc = "perceived"
    /\ todo = <<>>
    /\ loops' = new_event_loop(loops)
    /\ cur_loop' = Len(loops) + 1
    /\ pc' = "listing"
    /\ UNCHANGED <<logs, clock, store, request, local, todo, calls, appended,
                   response, nother>>

\* run_async, line 61: run_until_complete begins to run get_tools_list(),
\* which awaits the client and the session (lines 130-132).
DiscoverConnect ==
    /\ pc = "listing"
    /\ loops' = run_start(loops, cur_loop)
    /\ pc' = "list_connecting"
    /\ UNCHANGED <<logs, clock, store, cur_loop, request, local, todo, calls,
                   appended, response, nother>>

\* Line 133: the coroutine calls session.list_tools() and awaits it.
\* no_session: stdio_client or session.initialize() raised before the call;
\* the coroutine is over and run_until_complete raises.
DiscoverCall ==
    /\ pc = "list_connecting"
    /\ UNCHANGED <<logs, clock, cur_loop, request, appended, response, nother>>
    /\ \E outcome \in {"called", "no_session"} :
        IF outcome = "called"
        THEN /\ calls' = Append(calls, "list_tools")
             /\ pc' = "list_awaiting"
             /\ UNCHANGED <<store, loops, local, todo>>
        ELSE /\ loops' = run_until_complete(loops, cur_loop)
             /\ HandleException(<<>>, "discover", "connection failed")
             /\ UNCHANGED calls

\* Lines 133-134 and the end of line 61: list_tools returns or raises, the
\* coroutine leaves the session and the client and is over.  When it
\* returned, the loop is closed (line 62) in the step DiscoverEnd; when it
\* raised, line 62 is not reached.
DiscoverTools ==
    /\ pc = "list_awaiting"
    /\ loops' = run_until_complete(loops, cur_loop)
    /\ UNCHANGED <<logs, clock, cur_loop, request, calls, appended, response,
                   nother>>
    /\ \E outcome \in {"returned", "raised"} :
        IF outcome = "returned"
        THEN /\ pc' = "listed"
             /\ UNCHANGED <<store, local, todo>>
        ELSE HandleException(<<>>, "discover", "list_tools failed")

\* run_async, lines 62-63, and lines 136-167: the loop is closed and the tool
\* list the coroutine returned reaches the handler; the add_log calls of
\* lines 137, 159 (one for each tool that cannot be described), 164 and 167
\* are due.
DiscoverEnd ==
    /\ pc = "listed"
    /\ loops' = loop_close(loops, cur_loop)
    /\ \E tools \in ToolLists :
        todo' = <<<<"SUCCESS", "found_tools">>>>
                \o describe_tools(tools)
                \o <<<<"INFO", "available_tools">>,
                     <<"INFO", "calling_decision_maker">>>>
    /\ pc' = "discovered"
    /\ UNCHANGED <<logs, clock, store, cur_loop, request, local, calls, appended,
                   response, nother>>

\* Lines 168-181: make_decision, and the three keys read from its result; the
\* add_log calls of lines 178 and 181 are due when it returned.
\* not_called: get_decision_maker() (line 168) or the argument
\* user_input.model_dump_json() (line 170) raised, before the call.
\* malformed: a key of lines 175-177 is missing from the result.
\* not_serializable: json.dumps(arguments) raises while the message of line
\* 181 is built, after the add_log call of line 178.
Decide ==
    /\ pc = "discovered"
    /\ todo = <<>>
    /\ UNCHANGED <<logs, clock, loops, cur_loop, request, appended, response, nother>>
    /\ \E outcome \in {"returned", "raised", "malformed", "not_called",
                       "not_serializable"} :
        /\ calls' = IF outcome = "not_called" THEN calls
                    ELSE Append(calls, "make_decision")
        /\ CASE outcome = "returned" ->
                    /\ todo' = <<<<"SUCCESS", "decision_made">>,
                                 <<"INFO", "calling_tool">>>>
                    /\ local' = [local EXCEPT !.reasoning = "reasoning"]
                    /\ pc' = "decided"
                    /\ UNCHANGED store
             [] outcome = "not_serializable" ->
                    HandleException(<<<<"SUCCESS", "decision_made">>>>,
                                    "invoke", "TypeError")
             [] OTHER ->
                    HandleException(<<>>, "decide",
                                    CASE outcome = "raised" -> "make_decision failed"
                                      [] outcome = "malformed" -> "KeyError"
                                      [] OTHER -> "get_decision_maker failed")

\* Lines 182-194 and run_async, lines 59-60: a new event loop is created and
\* installed as the loop of the request thread.
InvokeBegin ==
    /\ pc = "decided"
    /\ todo = <<>>
    /\ loops' = new_event_loop(loops)
    /\ cur_loop' = Len(loops) + 1
    /\ pc' = "calling"
    /\ UNCHANGED <<logs, clock, store, request, local, todo, calls, appended,
                   response, nother>>

\* run_async, line 61: run_until_complete begins to run
\* call_tool_with_session(), which awaits the client and the session
\* (lines 183-185).
InvokeConnect ==
    /\ pc = "calling"
    /\ loops' = run_start(loops, cur_loop)
    /\ pc' = "call_connecting"
    /\ UNCHANGED <<logs, clock, store, cur_loop, request, local, todo, calls,
                   appended, response, nother>>

\* Line 186: the coroutine calls session.call_tool() and awaits it.
\* no_session: stdio_client or session.initialize() raised before the call;
\* the coroutine is over and run_until_complete raises.
InvokeCall ==
    /\ pc = "call_connecting"
    /\ UNCHANGED <<logs, clock, cur_loop, request, appended, response, nother>>
    /\ \E outcome \in {"called", "no_session"} :
        IF outcome = "called"
        THEN /\ calls' = Append(calls, "call_tool")
             /\ pc' = "call_awaiting"
             /\ UNCHANGED <<store, loops, local, todo>>
        ELSE /\ loops' = run_until_complete(loops, cur_loop)
             /\ HandleException(<<>>, "invoke", "connection failed")
             /\ UNCHANGED calls

\* Lines 186-192 and the end of line 61: call_tool returns or raises, the
\* coroutine leaves the session and the client and is over.
InvokeTool ==
    /\ pc = "call_awaiting"
    /\ loops' = run_until_complete(loops, cur_loop)
    /\ UNCHANGED <<logs, clock, cur_loop, request, calls, appended, response,
                   nother>>
    /\ \E outcome \in {"returned", "raised"} :
        IF outcome = "returned"
        THEN /\ pc' = "called"
             /\ UNCHANGED <<store, local, todo>>
        ELSE HandleException(<<>>, "invoke", "call_tool failed")

\* run_async, lines 62-63, and lines 194-195: the loop is closed and the
\* payload the coroutine returned (lines 187-192) reaches the handler; the
\* add_log call of line 195 is due.
InvokeEnd ==
    /\ pc = "called"
    /\ loops' = loop_close(loops, cur_loop)
    /\ \E content \in Contents :
        local' = [local EXCEPT !.payload = payload_of(content)]
    /\ todo' = <<<<"SUCCESS", "tool_completed">>>>
    /\ pc' = "invoked"
    /\ UNCHANGED <<logs, clock, store, cur_loop, request, calls, appended,
                   response, nother>>

\* Lines 197-220: the payload is parsed and wrapped; the add_log calls of
\* lines 201, 212, 216, 218 and 220 are due as far as they are reached.
Respond ==
    /\ pc = "invoked"
    /\ todo = <<>>
    /\ UNCHANGED <<logs, clock, loops, cur_loop, request, calls, appended,
                   response, nother>>
    /\ LET n == normalize(local.payload)
       IN IF n.raised
          THEN HandleException(n.items, "normalize", "TypeError")
          ELSE /\ todo' = n.items
               /\ local' = [local EXCEPT !.recommendations = n.payload]
               /\ pc' = "completing"
               /\ UNCHANGED store

\* Lines 222-228: the success body is built.  jsonify raises TypeError when
\* reasoning (from the decision maker) or mem_id (from the memory store) is
\* a value it cannot serialise; neither has been serialised before this
\* line.  The statement stands in the try block, so the handler goes to the
\* except clause.
Return200 ==
    /\ pc = "completing"
    /\ todo = <<>>
    /\ UNCHANGED <<logs, clock, loops, cur_loop, request, calls, appended, nother>>
    /\ \E outcome \in {"returned", "reasoning_not_serializable",
                        "mem_id_not_serializable"} :
        IF outcome = "returned"
        THEN /\ response' = success_response(local.recommendations, local.reasoning,
                                             local.mem_id, local.gem_perception)
             /\ pc' = "done"
             /\ UNCHANGED <<store, local, todo>>
        ELSE /\ HandleException(<<>>, "respond", "TypeError")
             /\ UNCHANGED response

\* Line 85 and line 232: the error body is returned after the add_log call
\* of line 84 or of line 231.
ReturnError ==
    /\ pc \in {"rejecting", "failing"}
    /\ todo = <<>>
    /\ response' = error_response(IF pc = "rejecting" THEN 400 ELSE 500, local.error)
    /\ pc' = "done"
    /\ UNCHANGED <<logs, clock, store, loops, cur_loop, request, local, todo,
                   calls, appended, nother>>

\* add_log of the handler, lines 32-38: the entry is composed, with the time
\* of this moment as its timestamp.
AddLogBegin ==
    /\ todo # <<>>
    /\ composed = <<>>
    /\ composed' = <<log_entry(clock + 1, Head(todo)[1], Head(todo)[2])>>
    /\ clock' = clock + 1
    /\ UNCHANGED <<logs, store, loops, cur_loop, pc, request, local, todo, calls,
                   appended, response, nother>>

\* add_log of the handler, lines 39-42: the composed entry is appended under
\* the lock and printed (the console is taken to accept the text).  Other
\* threads may have appended entries with later timestamps meanwhile.
AddLog ==
    /\ composed # <<>>
    /\ logs' = deque_append(logs, composed[1])
    /\ composed' = <<>>
    /\ appended' = Append(appended, Head(todo))
    /\ todo' = Tail(todo)
    /\ UNCHANGED <<clock, store, loops, cur_loop, pc, request, local, calls,
                   response, nother>>

\* The operations of another request thread, thread 2, which runs one
\* operation at a time.  tpc[2] is where it is, top[2] what it executes.

\* add_log (lines 32-38) in thread 2, called from a handler other than
\* clear_logs: the entry is composed, with the time of this moment.
OtherAddLogBegin ==
    /\ tpc[2] = "idle"
    /\ nother < MaxOtherOps
    /\ nother' = nother + 1
    /\ top' = [top EXCEPT ![2] = [op |-> "add_log", limit |-> 0,
                                  entry |-> log_entry(clock + 1, "INFO", "message")]]
    /\ clock' = clock + 1
    /\ tpc' = [tpc EXCEPT ![2] = "add_composed"]
    /\ UNCHANGED <<logs, store, loops, cur_loop, pc, request, local, todo,
                   composed, calls, appended, response>>
    /\ UNCHANGED <<log_lock, tret, lastOp, nops>>

\* add_log (lines 39-42) in thread 2, whether called from clear_logs or
\* from another handler: the composed entry is appended under the lock.
OtherAddLog ==
    /\ tpc[2] = "add_composed"
    /\ logs' = deque_append(logs, top[2].entry)
    /\ tpc' = [tpc EXCEPT ![2] = "idle"]
    /\ top' = [top EXCEPT ![2] = NoOp]
    /\ UNCHANGED <<clock, store, loops, cur_loop, pc, request, local, todo,
                   composed, calls, appended, response, nother>>
    /\ UNCHANGED <<log_lock, tret, lastOp, nops>>

\* clear_logs in thread 2, lines 258-259: logs.clear() under the lock.
OtherClear ==
    /\ tpc[2] = "idle"
    /\ nother < MaxOtherOps
    /\ nother' = nother + 1
    /\ logs' = deque_clear(logs)
    /\ tpc' = [tpc EXCEPT ![2] = "cleared"]
    /\ top' = [top EXCEPT ![2] = [op |-> "clear_logs", limit |-> 0,
                                  entry |-> NoEntry]]
    /\ UNCHANGED <<clock, store, loops, cur_loop, pc, request, local, todo,
                   composed, calls, appended, response>>
    /\ UNCHANGED <<log_lock, tret, lastOp, nops>>

\* clear_logs in thread 2, line 260: its add_log call composes the entry
\* (lines 32-38); the append is the step OtherAddLog.
OtherClearLogBegin ==
    /\ tpc[2] = "cleared"
    /\ top' = [top EXCEPT ![2].entry = log_entry(clock + 1, "INFO", "logs_cleared")]
    /\ clock' = clock + 1
    /\ tpc' = [tpc EXCEPT ![2] = "add_composed"]
    /\ UNCHANGED <<logs, store, loops, cur_loop, pc, request, local, todo,
                   composed, calls, appended, response, nother>>
    /\ UNCHANGED <<log_lock, tret, lastOp, nops>>

\* get_logs_endpoint (lines 248-249) in thread 2, with the default limit of
\* line 248: the buffer is read under the lock.
OtherGetLogs ==
    /\ tpc[2] = "idle"
    /\ nother < MaxOtherOps
    /\ nother' = nother + 1
    /\ tret' = [tret EXCEPT ![2] = get_logs(logs, 100)]
    /\ UNCHANGED <<logs, clock, store, loops, cur_loop, pc, request, local, todo,
                   composed, calls, appended, response>>
    /\ UNCHANGED <<log_lock, tpc, top, lastOp, nops>>

\* The input of the /recommend request of another thread: the letter o.
OtherInput == <<111>>

\* Lines 94-100 of recommend() in thread 2.
OtherAddMemory ==
    /\ tpc[2] = "idle"
    /\ nother < MaxOtherOps
    /\ nother' = nother + 1
    /\ store' = memory_add_memory(store, OtherInput, OtherInput, <<>>)
    /\ UNCHANGED <<logs, clock, loops, cur_loop, pc, request, local, todo,
                   composed, calls, appended, response>>
    /\ UNCHANGED logVars

Init ==
    /\ logs = <<>>
    /\ clock = 0
    /\ store = <<>>
    /\ loops = <<>>
    /\ cur_loop = 0
    /\ pc = "idle"
    /\ request = NoBody
    /\ local = EmptyLocal
    /\ todo = <<>>
    /\ composed = <<>>
    /\ calls = <<>>
    /\ appended = <<>>
    /\ response = NoResponse
    /\ nother = 0
    /\ log_lock = 0
    /\ tpc = [t \in {1, 2} |-> "idle"]
    /\ top = [t \in {1, 2} |-> NoOp]
    /\ tret = [t \in {1, 2} |-> <<>>]
    /\ lastOp = "none"
    /\ nops = 0

Next ==
    \/ Receive /\ UNCHANGED <<composed, logVars>>
    \/ Validate /\ UNCHANGED <<composed, logVars>>
    \/ Persist /\ UNCHANGED <<composed, logVars>>
    \/ PerceiveLocal /\ UNCHANGED <<composed, logVars>>
    \/ PerceiveGemini /\ UNCHANGED <<composed, logVars>>
    \/ DiscoverBegin /\ UNCHANGED <<composed, logVars>>
    \/ DiscoverConnect /\ UNCHANGED <<composed, logVars>>
    \/ DiscoverCall /\ UNCHANGED <<composed, logVars>>
    \/ DiscoverTools /\ UNCHANGED <<composed, logVars>>
    \/ DiscoverEnd /\ UNCHANGED <<composed, logVars>>
    \/ Decide /\ UNCHANGED <<composed, logVars>>
    \/ InvokeBegin /\ UNCHANGED <<composed, logVars>>
    \/ InvokeConnect /\ UNCHANGED <<composed, logVars>>
    \/ InvokeCall /\ UNCHANGED <<composed, logVars>>
    \/ InvokeTool /\ UNCHANGED <<composed, logVars>>
    \/ InvokeEnd /\ UNCHANGED <<composed, logVars>>
    \/ Respond /\ UNCHANGED <<composed, logVars>>
    \/ Return200 /\ UNCHANGED <<composed, logVars>>
    \/ ReturnError /\ UNCHANGED <<composed, logVars>>
    \/ AddLogBegin /\ UNCHANGED logVars
    \/ AddLog /\ UNCHANGED logVars
    \/ OtherAddLogBegin
    \/ OtherAddLog
    \/ OtherClear
    \/ OtherClearLogBegin
    \/ OtherGetLogs
    \/ OtherAddMemory

Spec == Init /\ [][Next]_vars

(***************************************************************************)
(* The log buffer under concurrent request threads.  Each thread runs one  *)
(* operation at a time: add_log (from any handler), get_logs_endpoint, or  *)
(* clear_logs.  A `with log_lock:` block is two steps, the acquisition and *)
(* the body with the release.                                              *)
(***************************************************************************)
Threads == {1, 2}

\* limit of GET /logs: request.args.get('limit', 100, type=int)
Limits == {-1, 0, 2, 100}

\* The buffer after n earlier add_log calls.
Backlog(n) == [i \in 1..n |-> log_entry(i, "INFO", "earlier")]

Backlogs == {0} \cup {maxlen - k : k \in 0..MaxBacklog}

\* add_log, lines 32-38: the entry is composed before the lock is taken.
\* The level and the message are the caller's; the buffer reads neither.
AddLogCompose(t) ==
    /\ tpc[t] = "idle"
    /\ nops < MaxOps
    /\ nops' = nops + 1
    /\ top' = [top EXCEPT ![t] = [op |-> "add_log", limit |-> 0,
                                  entry |-> log_entry(clock + 1, "INFO", "message")]]
    /\ clock' = clock + 1
    /\ tpc' = [tpc EXCEPT ![t] = "add_composed"]
    /\ UNCHANGED <<logs, log_lock, tret, lastOp>>

\* add_log, line 39
AddLogAcquire(t) ==
    /\ tpc[t] = "add_composed"
    /\ log_lock = 0
    /\ log_lock' = t
    /\ tpc' = [tpc EXCEPT ![t] = "add_locked"]
    /\ UNCHANGED <<logs, clock, top, tret, lastOp, nops>>

\* add_log, line 40 and the release; clear_logs returns after its add_log.
AddLogAppend(t) ==
    /\ tpc[t] = "add_locked"
    /\ log_lock = t
    /\ logs' = deque_append(logs, top[t].entry)
    /\ log_lock' = 0
    /\ tpc' = [tpc EXCEPT ![t] = "idle"]
    /\ lastOp' = top[t].op
    /\ UNCHANGED <<clock, top, tret, nops>>

\* get_logs_endpoint, lines 248-249, and get_logs, line 46
GetLogsAcquire(t) ==
    /\ tpc[t] = "idle"
    /\ nops < MaxOps
    /\ nops' = nops + 1
    /\ log_lock = 0
    /\ log_lock' = t
    /\ \E limit \in Limits :
        top' = [top EXCEPT ![t] = [op |-> "get_logs", limit |-> limit,
                                   entry |-> NoEntry]]
    /\ tpc' = [tpc EXCEPT ![t] = "get_locked"]
    /\ UNCHANGED <<logs, clock, tret, lastOp>>

\* get_logs, line 47 and the release
GetLogsRead(t) ==
    /\ tpc[t] = "get_locked"
    /\ log_lock = t
    /\ tret' = [tret EXCEPT ![t] = get_logs(logs, top[t].limit)]
    /\ log_lock' = 0
    /\ tpc' = [tpc EXCEPT ![t] = "idle"]
    /\ lastOp' = "get_logs"
    /\ UNCHANGED <<logs, clock, top, nops>>

\* clear_logs, line 258
ClearAcquire(t) ==
    /\ tpc[t] = "idle"
    /\ nops < MaxOps
    /\ nops' = nops + 1
    /\ log_lock = 0
    /\ log_lock' = t
    /\ top' = [top EXCEPT ![t] = [op |-> "clear_logs", limit |-> 0, entry |-> NoEntry]]
    /\ tpc' = [tpc EXCEPT ![t] = "clear_locked"]
    /\ UNCHANGED <<logs, clock, tret, lastOp>>

\* clear_logs, line 259 and the release
ClearBody(t) ==
    /\ tpc[t] = "clear_locked"
    /\ log_lock = t
    /\ logs' = deque_clear(logs)
    /\ log_lock' = 0
    /\ tpc' = [tpc EXCEPT ![t] = "cleared"]
    /\ lastOp' = "clear"
    /\ UNCHANGED <<clock, top, tret, nops>>

\* clear_logs, line 260: add_log("INFO", "Logs cleared") composes its entry
ClearCompose(t) ==
    /\ tpc[t] = "cleared"
    /\ top' = [top EXCEPT ![t] = [op |-> "clear_logs", limit |-> 0,
                                  entry |-> log_entry(clock + 1, "INFO", "logs_cleared")]]
    /\ clock' = clock + 1
    /\ tpc' = [tpc EXCEPT ![t] = "add_composed"]
    /\ UNCHANGED <<logs, log_lock, tret, lastOp, nops>>

InitLog ==
    /\ \E n \in Backlogs : logs = Backlog(n) /\ clock = n
    /\ store = <<>>
    /\ loops = <<>>
    /\ cur_loop = 0
    /\ pc = "idle"
    /\ request = NoBody
    /\ local = EmptyLocal
    /\ todo = <<>>
    /\ composed = <<>>
    /\ calls = <<>>
    /\ appended = <<>>
    /\ response = NoResponse
    /\ nother = 0
    /\ log_lock = 0
    /\ tpc = [t \in Threads |-> "idle"]
    /\ top = [t \in Threads |-> NoOp]
    /\ tret = [t \in Threads |-> <<>>]
    /\ lastOp = "none"
    /\ nops = 0

NextLog ==
    \/ \E t \in Threads : AddLogCompose(t) /\ UNCHANGED recVars
    \/ \E t \in Threads : AddLogAcquire(t) /\ UNCHANGED recVars
    \/ \E t \in Threads : AddLogAppend(t) /\ UNCHANGED recVars
    \/ \E t \in Threads : GetLogsAcquire(t) /\ UNCHANGED recVars
    \/ \E t \in Threads : GetLogsRead(t) /\ UNCHANGED recVars
    \/ \E t \in Threads : ClearAcquire(t) /\ UNCHANGED recVars
    \/ \E t \in Threads : ClearBody(t) /\ UNCHANGED recVars
    \/ \E t \in Threads : ClearCompose(t) /\ UNCHANGED recVars

SpecLog == InitLog /\ [][NextLog]_vars

(***************************************************************************)
(* Properties.                                                             *)
(***************************************************************************)
IsPrefix(a, b) == Len(a) <= Len(b) /\ a = SubSeq(b, 1, Len(a))

IsSuffix(a, b) == Len(a) <= Len(b) /\ a = SubSeq(b, Len(b) - Len(a) + 1, Len(b))

\* A request field that is absent, or empty after trimming.
Missing(field) ==
    \/ field.kind = "absent"
    \/ field.kind = "str" /\ strip(field.s) = <<>>

\* The add_log calls of the request with a given message.
Logged(message) == {i \in 1..Len(appended) : appended[i][2] = message}

\* The entries of other request threads that stand in the buffer.
Foreign == {i \in 1..Len(logs) : logs[i].message = "message"}

\* The records of the store that other requests have added.
OtherRecords == {i \in 1..Len(store) : store[i].content.mood = OtherInput}

\* The tool invocation of the request returned a text.
ToolReturned == pc = "done" /\ calls = Canon /\ local.raised_in # "invoke"

\* Number of collaborator calls made once the handler has reached a place,
\* and once a step has raised.
CallsAt(place) ==
    CASE place = "persisted" -> 1
      [] place = "perceived_local" -> 2
      [] place \in {"perceived", "listing", "list_connecting"} -> 3
      [] place \in {"list_awaiting", "listed", "discovered"} -> 4
      [] place \in {"decided", "calling", "call_connecting"} -> 5
      [] place \in {"call_awaiting", "called", "invoked", "completing"} -> 6
      [] OTHER -> 0

CallsThrough(step) ==
    CASE step = "validate" -> 0
      [] step = "persist" -> 1
      [] step = "perceive_local" -> 2
      [] step = "perceive" -> 3
      [] step = "discover" -> 4
      [] step = "decide" -> 5
      [] OTHER -> 6

\* str(e) of the exceptions a step can raise.
Failures(step) ==
    CASE step = "validate" -> {"AttributeError"}
      [] step = "persist" -> {"add_memory failed"}
      [] step = "perceive_local" ->
            {"perceive_user_input failed", "PerceptionManager failed"}
      [] step = "perceive" -> {"perceive_with_gemini failed", "TypeError"}
      [] step = "discover" -> {"list_tools failed", "connection failed"}
      [] step = "decide" ->
            {"make_decision failed", "KeyError", "get_decision_maker failed"}
      [] step = "invoke" -> {"call_tool failed", "connection failed", "TypeError"}
      [] step \in {"normalize", "respond"} -> {"TypeError"}
      [] OTHER -> {}

\* The add_log calls of the request at level ERROR.
Errors == {i \in 1..Len(appended) : appended[i][1] = "ERROR"}

\* The handler is inside run_async, between line 59 and line 63.
InRunAsync ==
    pc \in {"listing", "list_connecting", "list_awaiting", "listed",
            "calling", "call_connecting", "call_awaiting", "called"}

\* C1: a request whose mood or activity is missing (absent, or empty after
\* trimming) is answered 400 with {"error": "Mood and activity are required."}
\* and no collaborator is called for it.
C1_MissingIsRejected ==
    (pc = "done" /\ request.is_object
        /\ (Missing(request.mood) \/ Missing(request.activity)))
    => /\ response.status = 400
       /\ response.keys = {"error"}
       /\ response.error = "Mood and activity are required."
       /\ calls = <<>>

\* C2: the buffer never holds more than maxlen entries, and an append keeps
\* the entries in insertion order with the new entry last, dropping exactly
\* the oldest entry when the buffer was full.
C2_BoundedFifo ==
    /\ [](Len(logs) <= maxlen)
    /\ [][\A t \in Threads :
            (tpc[t] = "add_locked" /\ tpc'[t] = "idle")
            => logs' = (IF Len(logs) = maxlen THEN Tail(logs) ELSE logs)
                       \o <<top[t].entry>>]_vars

C2_Witness ==
    /\ lastOp = "add_log"
    /\ Len(logs) = maxlen
    /\ logs[1].timestamp > 1
    /\ logs[maxlen].message = "message"

\* C3: get_logs(limit) returns at most limit entries, namely the min(limit,
\* length) most recent ones in insertion order, for every integer limit, and
\* leaves the buffer unchanged.
C3_RecentAtMostLimit ==
    [][\A t \in Threads :
        (tpc[t] = "get_locked" /\ tpc'[t] = "idle")
        => /\ Len(tret'[t]) <= top[t].limit
           /\ IsSuffix(tret'[t], logs)
           /\ (Len(tret'[t]) = top[t].limit \/ tret'[t] = logs)
           /\ logs' = logs]_vars

\* C4: whatever text the tool returned, the request is answered 200 and the
\* recommendations field is a list.
C4_RecommendationsIsList ==
    ToolReturned
    => /\ response.status = 200
       /\ response.recommendations.kind = "list"

\* C5 as stated: when the tool returned a text that is not valid JSON, the
\* request is answered 200 with an empty recommendations list, the request
\* logs the parse failure and the empty result at level WARNING, and it logs
\* nothing at level ERROR, whatever other request threads do to the buffer
\* meanwhile.
C5_MalformedPayloadDegrades ==
    (ToolReturned /\ ~json_loads(local.payload).ok)
    => /\ response.status = 200
       /\ response.success
       /\ response.recommendations = EmptyList
       /\ \E i \in Logged("parse_failed") : appended[i][1] = "WARNING"
       /\ \E i \in Logged("no_recommendations") : appended[i][1] = "WARNING"
       /\ \A i \in 1..Len(appended) : appended[i][1] # "ERROR"

\* C5 as amended: when the tool returned a text that is not valid JSON, the
\* payload becomes the empty list and the request logs the parse failure and
\* then the empty result, once each, at level WARNING.  If building the
\* response body does not fail, the request is answered 200 with an empty
\* recommendations list and has logged nothing at level ERROR.  If it fails
\* (jsonify on a reasoning or memory id that cannot be serialised), the
\* request is answered 500 with the failure's message, and its one ERROR log
\* call is its last, made after the WARNING calls and the completion call.
C5_MalformedDegradesUnlessShapingFails ==
    (ToolReturned /\ ~json_loads(local.payload).ok)
    => /\ local.recommendations = EmptyList
       /\ local.raised_in \in {"", "respond"}
       /\ Cardinality(Logged("parse_failed")) = 1
       /\ Cardinality(Logged("no_recommendations")) = 1
       /\ Cardinality(Logged("request_completed")) = 1
       /\ \A i \in Logged("parse_failed") :
            \A j \in Logged("no_recommendations") :
                \A k \in Logged("request_completed") :
                    /\ i < j /\ j < k
                    /\ appended[i][1] = "WARNING"
                    /\ appended[j][1] = "WARNING"
                    /\ Errors \subseteq {k + 1}
       /\ local.raised_in = ""
          => /\ response.status = 200
             /\ response.success
             /\ response.recommendations = EmptyList
             /\ Errors = {}
       /\ local.raised_in = "respond"
          => /\ response.status = 500
             /\ response.keys = {"error"}
             /\ response.error = "TypeError"
             /\ Errors = {Len(appended)}

C5_Witness ==
    /\ pc = "done"
    /\ calls = Canon
    /\ local.payload = "not json"
    /\ local.raised_in = ""
    /\ response.status = 200
    /\ \E i \in Foreign :
        /\ i > 1
        /\ i < Len(logs)
        /\ logs[i - 1].message = "parse_failed"
        /\ logs[i + 1].message = "no_recommendations"
        /\ logs[i].timestamp > logs[i + 1].timestamp

\* C6: a step that raises, response shaping included, ends the request with
\* 500 and a body that holds the failure's message under "error" and nothing
\* else, after one ERROR log call; no response mixes "error" with a success
\* key; success is reported only when every step completed: every
\* collaborator returned, both event loops are closed, the completion is
\* logged and nothing is logged at level ERROR.
C6_FailureIs500 ==
    /\ response.status # 0 => pc = "done"
    /\ (pc = "done" /\ local.raised_in # "")
       => /\ response.status = 500
          /\ response.keys = {"error"}
          /\ response.error = local.error
          /\ response.error \in Failures(local.raised_in)
          /\ ~response.success
          /\ Len(appended) > 0
          /\ appended[Len(appended)] = <<"ERROR", "exception">>
          /\ Errors = {Len(appended)}
    /\ "error" \in response.keys => response.keys = {"error"}
    /\ ("success" \in response.keys \/ response.success)
       => /\ response.status = 200
          /\ local.raised_in = ""
          /\ calls = Canon
          /\ response.memory_id = local.mem_id
          /\ local.mem_id # 0
          /\ response.recommendations = local.recommendations
          /\ Len(loops) = 2
          /\ \A i \in 1..Len(loops) :
                loops[i] = [state |-> "closed", started |-> 1, ran |-> 1]
          /\ Logged("request_completed") = {Len(appended)}
          /\ Errors = {}

C6_Witness ==
    /\ pc = "done"
    /\ local.raised_in = "respond"
    /\ calls = Canon
    /\ local.mem_id # 0
    /\ Logged("request_completed") # {}
    /\ response.status = 500
    /\ response.keys = {"error"}
    /\ response.error = "TypeError"

\* C7 as stated: after POST /logs/clear has completed, get_logs returns an
\* empty sequence for any limit.
C7_ClearedThenEmpty ==
    lastOp = "clear_logs" => \A limit \in Limits : get_logs(logs, limit) = <<>>

\* C7 as amended: right after logs.clear() get_logs returns an empty sequence
\* for any limit; right after POST /logs/clear has completed, get_logs with a
\* limit >= 0 returns a sequence that ends with the INFO entry clear_logs
\* appended itself.
C7_ClearThenOwnEntry ==
    /\ lastOp = "clear" => \A limit \in Limits : get_logs(logs, limit) = <<>>
    /\ lastOp = "clear_logs"
       => \A limit \in Limits :
            limit >= 0
            => LET r == get_logs(logs, limit)
               IN /\ r # <<>>
                  /\ r[Len(r)].message = "logs_cleared"
                  /\ r[Len(r)].level = "INFO"

C7_Witness ==
    /\ lastOp = "clear_logs"
    /\ \A t \in Threads : tpc[t] = "idle"
    /\ Len(get_logs(logs, 100)) = 1

\* C8: the collaborators are called in the order add_memory,
\* perceive_user_input, perceive_with_gemini, list_tools, make_decision,
\* call_tool, each at most once and each only after the steps before it
\* completed; after a step has raised no further collaborator is called.
C8_StrictOrder ==
    /\ IsPrefix(calls, Canon)
    /\ pc \notin {"failing", "done"} => Len(calls) = CallsAt(pc) /\ local.raised_in = ""
    /\ local.raised_in # ""
       => /\ pc \in {"failing", "done"}
          /\ Len(calls) <= CallsThrough(local.raised_in)
          /\ Len(calls) >= CallsThrough(local.raised_in) - 1
          /\ pc = "done" => response.status = 500
    /\ response.status = 400 => calls = <<>>
    /\ response.status = 200 => calls = Canon

C8_Witness ==
    /\ pc = "done"
    /\ local.raised_in = "discover"
    /\ calls = SubSeq(Canon, 1, 4)
    /\ nother = MaxOtherOps

\* C9: the loop of a run_async call in progress is a fresh one, and every
\* loop run_async has created has run one coroutine and is closed once that
\* run_async call is over, whether the coroutine returned or raised.
C9_LoopsClosed ==
    /\ InRunAsync => cur_loop = Len(loops) /\ loops[cur_loop].state = "open"
    /\ \A i \in 1..Len(loops) :
        (InRunAsync /\ i = cur_loop)
        \/ (loops[i].state = "closed" /\ loops[i].started = 1 /\ loops[i].ran = 1)

\* C10: the store holds the record of the request from the moment its
\* add_memory call returned, and holds it still when a later step fails and
\* the request is answered 500; a request adds at most one record, adds none
\* before that call or when it is answered 400, and takes away no record of
\* another request.
C10_NoRollback ==
    /\ Len(store) = Cardinality(OtherRecords) + (IF local.mem_id # 0 THEN 1 ELSE 0)
    /\ Cardinality(OtherRecords) <= nother
    /\ local.mem_id # 0
       => /\ local.mem_id \in 1..Len(store)
          /\ store[local.mem_id].content.mood = local.mood
          /\ store[local.mem_id].content.activity = local.activity
          /\ store[local.mem_id].tags = local.tags
    /\ Logged("stored_to_memory") # {} => local.mem_id # 0
    /\ Cardinality(Logged("stored_to_memory")) <= 1
    /\ (pc = "done" /\ response.status = 400)
       => /\ local.mem_id = 0
          /\ Logged("stored_to_memory") = {}

C10_Witness ==
    /\ pc = "done"
    /\ response.status = 500
    /\ local.raised_in = "invoke"
    /\ local.mem_id = 1
    /\ Len(store) = 2
    /\ store[2].content.mood = OtherInput

====
